---- MODULE Spec2Model ----
(***************************************************************************)
(* SubTrack: the access-gated synchronisation layer.                       *)
(*                                                                         *)
(*   - the Cloudflare worker (src/cloudflare-worker.js, lines 1-201):      *)
(*     router, cookie authentication, login/logout, the /api/data          *)
(*     handler over the key-value store, the static content proxy;         *)
(*   - the client sync controller (App, src/cloudflare-worker.js lines     *)
(*     234-296, and src/services/dataService.ts): initial load and the     *)
(*     debounced full-overwrite save.                                      *)
(*                                                                         *)
(* Strings are sequences of one-character strings, so that btoa,           *)
(* parseCookies and the JSON conversions are computed and not assumed.     *)
(***************************************************************************)
EXTENDS Integers, Sequences, FiniteSets, TLC

(***************************************************************************)
(* Bounds of the model.                                                    *)
(***************************************************************************)
\* longest configured secret / submitted password, in characters
MaxSecretLen == 2
\* most records (jobs and payments together) in a document
MaxRecords == 1
\* most invocations of the worker in progress at a time
MaxConcurrent == 2
\* most requests of the client in flight at a time
MaxInFlight == 2
\* the clock of the client advances in steps of TickMs milliseconds
TickMs == 250
\* the mutations and the saves of a burst are counted up to CountCap
CountCap == 2
\* most exchanges kept in the record of a session
MaxServed == 3

(***************************************************************************)
(* Program constants.                                                      *)
(***************************************************************************)
COOKIE_NAME == <<"s","u","b","t","r","a","c","k","_","a","u","t","h">>
COOKIE_MAX_AGE == 2592000
\* the delay of the setTimeout in debouncedSave
DEBOUNCE_MS == 500
\* the origin is one opaque chunk of the URL; the paths are character sequences
GITHUB_ORIGIN == << "https://panpapadopoulos.github.io" >>
GITHUB_PATH == <<"/","s","u","b","t","r","a","c","k">>

(***************************************************************************)
(* Strings.                                                                *)
(***************************************************************************)
\* UTF-16 code units of the characters that occur in the model; "U+03C0" is the
\* single character GREEK SMALL LETTER PI, which is outside Latin-1
CharCode ==
  ("a" :> 97) @@ ("d" :> 100) @@ ("e" :> 101) @@ ("f" :> 102) @@
  ("i" :> 105) @@ ("n" :> 110) @@ ("u" :> 117) @@ ("U+03C0" :> 960)

\* the base64 alphabet of btoa
B64 ==
  <<"A","B","C","D","E","F","G","H","I","J","K","L","M","N","O","P",
    "Q","R","S","T","U","V","W","X","Y","Z","a","b","c","d","e","f",
    "g","h","i","j","k","l","m","n","o","p","q","r","s","t","u","v",
    "w","x","y","z","0","1","2","3","4","5","6","7","8","9","+","/">>

\* JavaScript values that occur as env.PASSWORD and as formData.get(...)
Undefined == [kind |-> "undefined", s |-> <<>>]
Null == [kind |-> "null", s |-> <<>>]
Str(s) == [kind |-> "string", s |-> s]

\* JsToString: the conversion btoa and the template literals apply
JsToString(v) ==
  CASE v.kind = "string" -> v.s
    [] v.kind = "undefined" -> <<"u","n","d","e","f","i","n","e","d">>
    [] OTHER -> <<"n","u","l","l">>

\* JavaScript's === on these values
StrictEq(x, y) == x.kind = y.kind /\ (x.kind = "string" => x.s = y.s)

RECURSIVE B64Encode(_)
B64Encode(bytes) ==
  IF Len(bytes) = 0 THEN <<>>
  ELSE IF Len(bytes) = 1 THEN
    << B64[(bytes[1] \div 4) + 1], B64[((bytes[1] % 4) * 16) + 1], "=", "=" >>
  ELSE IF Len(bytes) = 2 THEN
    << B64[(bytes[1] \div 4) + 1],
       B64[((bytes[1] % 4) * 16) + (bytes[2] \div 16) + 1],
       B64[((bytes[2] % 16) * 4) + 1], "=" >>
  ELSE
    << B64[(bytes[1] \div 4) + 1],
       B64[((bytes[1] % 4) * 16) + (bytes[2] \div 16) + 1],
       B64[((bytes[2] % 16) * 4) + (bytes[3] \div 64) + 1],
       B64[(bytes[3] % 64) + 1] >> \o B64Encode(SubSeq(bytes, 4, Len(bytes)))

\* btoa(v): throws InvalidCharacterError when a code unit is above 0xFF
Btoa(v) ==
  LET s == JsToString(v)
      codes == [i \in 1..Len(s) |-> CharCode[s[i]]]
  IN IF \E i \in 1..Len(s) : codes[i] > 255
       THEN [ok |-> FALSE, s |-> <<>>]
       ELSE [ok |-> TRUE, s |-> B64Encode(codes)]

(***************************************************************************)
(* parseCookies (lines 152-160).                                           *)
(***************************************************************************)
\* String.prototype.split on a one-character separator
RECURSIVE SplitFrom(_, _, _, _)
SplitFrom(s, sep, i, cur) ==
  IF i > Len(s) THEN << cur >>
  ELSE IF s[i] = sep THEN << cur >> \o SplitFrom(s, sep, i + 1, <<>>)
  ELSE SplitFrom(s, sep, i + 1, Append(cur, s[i]))

Split(s, sep) == SplitFrom(s, sep, 1, <<>>)

RECURSIVE TrimStart(_)
TrimStart(s) ==
  IF Len(s) > 0 /\ s[1] = " " THEN TrimStart(Tail(s)) ELSE s

RECURSIVE TrimEnd(_)
TrimEnd(s) ==
  IF Len(s) > 0 /\ s[Len(s)] = " " THEN TrimEnd(SubSeq(s, 1, Len(s) - 1)) ELSE s

Trim(s) == TrimEnd(TrimStart(s))

RECURSIVE Join(_, _)
Join(parts, sep) ==
  IF Len(parts) = 0 THEN <<>>
  ELSE IF Len(parts) = 1 THEN parts[1]
  ELSE parts[1] \o << sep >> \o Join(Tail(parts), sep)

\* the cookies object, as the sequence of its assignments [n |-> name, v |-> value]
RECURSIVE CookieAssignments(_)
CookieAssignments(pieces) ==
  IF Len(pieces) = 0 THEN <<>>
  ELSE LET nr == Split(Trim(pieces[1]), "=")
           n == nr[1]
           r == Tail(nr)
       IN (IF Len(n) > 0 THEN << [n |-> n, v |-> Join(r, "=")] >> ELSE <<>>)
            \o CookieAssignments(Tail(pieces))

parseCookies(header) ==
  IF Len(header) = 0 THEN <<>> ELSE CookieAssignments(Split(header, ";"))

\* cookies[name]: the last assignment wins, undefined when there is none
CookieGet(cookies, name) ==
  LET hits == { i \in 1..Len(cookies) : cookies[i].n = name }
  IN IF hits = {} THEN Undefined
     ELSE Str(cookies[CHOOSE i \in hits : \A j \in hits : j <= i].v)

(***************************************************************************)
(* JSON: texts are token sequences, values are trees [t, s, k].            *)
(***************************************************************************)
JNull == [t |-> "null", s |-> "", k |-> <<>>]
JBool(b) == [t |-> IF b THEN "true" ELSE "false", s |-> "", k |-> <<>>]
JNum(numeral) == [t |-> "num", s |-> numeral, k |-> <<>>]
JStr(s) == [t |-> "str", s |-> s, k |-> <<>>]
JArr(elems) == [t |-> "arr", s |-> "", k |-> elems]
JMem(key, v) == [t |-> "mem", s |-> key, k |-> << v >>]
JObj(members) == [t |-> "obj", s |-> "", k |-> members]

\* the string contents and the number literals that occur in the model
JStrings ==
  {"jobs", "payments", "id", "amount", "", "error", "success", "Unauthorized",
   "SyntaxError", "StoreError"}
Quote(s) == "\"" \o s \o "\""
\* a number literal's value, as the numeral JSON.stringify prints for it
NumValue == ("0" :> "0") @@ ("1" :> "1") @@ ("1.0" :> "1") @@ ("2" :> "2")

IsStrToken(tok) == \E s \in JStrings : Quote(s) = tok
Unquote(tok) == CHOOSE s \in JStrings : Quote(s) = tok

RECURSIVE SkipWs(_, _)
SkipWs(ts, i) == IF i <= Len(ts) /\ ts[i] = " " THEN SkipWs(ts, i + 1) ELSE i

ParseFail == [ok |-> FALSE, v |-> JNull, i |-> 0]
ParseOk(v, i) == [ok |-> TRUE, v |-> v, i |-> i]

\* obj[key] = v on an object's member list: an existing key keeps its place
SetMember(members, key, v) ==
  IF \E n \in 1..Len(members) : members[n].s = key
    THEN [n \in 1..Len(members) |->
            IF members[n].s = key THEN JMem(key, v) ELSE members[n]]
    ELSE Append(members, JMem(key, v))

RECURSIVE ParseValue(_, _)
RECURSIVE ParseElems(_, _, _)
RECURSIVE ParseMembers(_, _, _)

ParseValue(ts, i0) ==
  LET i == SkipWs(ts, i0) IN
  IF i > Len(ts) THEN ParseFail
  ELSE LET tok == ts[i] IN
    CASE tok = "null" -> ParseOk(JNull, i + 1)
      [] tok = "true" -> ParseOk(JBool(TRUE), i + 1)
      [] tok = "false" -> ParseOk(JBool(FALSE), i + 1)
      [] tok \in DOMAIN NumValue -> ParseOk(JNum(NumValue[tok]), i + 1)
      [] IsStrToken(tok) -> ParseOk(JStr(Unquote(tok)), i + 1)
      [] tok = "[" ->
           LET j == SkipWs(ts, i + 1) IN
           IF j <= Len(ts) /\ ts[j] = "]" THEN ParseOk(JArr(<<>>), j + 1)
           ELSE ParseElems(ts, i + 1, <<>>)
      [] tok = "{" ->
           LET j == SkipWs(ts, i + 1) IN
           IF j <= Len(ts) /\ ts[j] = "}" THEN ParseOk(JObj(<<>>), j + 1)
           ELSE ParseMembers(ts, i + 1, <<>>)
      [] OTHER -> ParseFail

ParseElems(ts, i, acc) ==
  LET r == ParseValue(ts, i) IN
  IF ~r.ok THEN ParseFail
  ELSE LET j == SkipWs(ts, r.i) IN
    IF j > Len(ts) THEN ParseFail
    ELSE IF ts[j] = "," THEN ParseElems(ts, j + 1, Append(acc, r.v))
    ELSE IF ts[j] = "]" THEN ParseOk(JArr(Append(acc, r.v)), j + 1)
    ELSE ParseFail

ParseMembers(ts, i, acc) ==
  LET j == SkipWs(ts, i) IN
  IF j > Len(ts) \/ ~IsStrToken(ts[j]) THEN ParseFail
  ELSE LET c == SkipWs(ts, j + 1) IN
    IF c > Len(ts) \/ ts[c] # ":" THEN ParseFail
    ELSE LET r == ParseValue(ts, c + 1) IN
      IF ~r.ok THEN ParseFail
      ELSE LET e == SkipWs(ts, r.i)
               members == SetMember(acc, Unquote(ts[j]), r.v) IN
        IF e > Len(ts) THEN ParseFail
        ELSE IF ts[e] = "," THEN ParseMembers(ts, e + 1, members)
        ELSE IF ts[e] = "}" THEN ParseOk(JObj(members), e + 1)
        ELSE ParseFail

\* JSON.parse / request.json(): ok is FALSE where they throw SyntaxError
JsonParse(ts) ==
  LET r == ParseValue(ts, 1) IN
  IF r.ok /\ SkipWs(ts, r.i) > Len(ts) THEN [ok |-> TRUE, v |-> r.v]
  ELSE [ok |-> FALSE, v |-> JNull]

RECURSIVE JsonStringify(_)
RECURSIVE StringifyList(_)
JsonStringify(v) ==
  CASE v.t \in {"null", "true", "false"} -> << v.t >>
    [] v.t = "num" -> << v.s >>
    [] v.t = "str" -> << Quote(v.s) >>
    [] v.t = "arr" -> << "[" >> \o StringifyList(v.k) \o << "]" >>
    [] v.t = "obj" -> << "{" >> \o StringifyList(v.k) \o << "}" >>
    [] v.t = "mem" -> << Quote(v.s), ":" >> \o JsonStringify(v.k[1])

StringifyList(vs) ==
  IF Len(vs) = 0 THEN <<>>
  ELSE IF Len(vs) = 1 THEN JsonStringify(vs[1])
  ELSE JsonStringify(vs[1]) \o << "," >> \o StringifyList(Tail(vs))

\* JavaScript truthiness of a parsed JSON value (the `data || ...` of line 90)
Truthy(v) ==
  ~ \/ v.t \in {"null", "false"}
    \/ (v.t = "num" /\ v.s = "0")
    \/ (v.t = "str" /\ v.s = "")

(***************************************************************************)
(* The inputs the model draws from.                                        *)
(***************************************************************************)
\* a Latin-1 secret of n characters: "", "a", "ad", "ada", ...
LatinSecret(n) == [i \in 1..n |-> IF i % 2 = 1 THEN "a" ELSE "d"]
SecretStrings == { LatinSecret(n) : n \in 0..MaxSecretLen } \cup { << "U+03C0" >> }
\* env.PASSWORD: a configured string, or undefined when the setting is missing
Secrets == { Str(s) : s \in SecretStrings } \cup { Undefined }
Configured(secret) == secret.kind = "string"

\* the tokens a client may present: every encodable secret's encoding, the
\* encoding of "undefined", and a token that encodes nothing
Tokens == { Btoa(v).s : v \in { w \in Secrets : Btoa(w).ok } } \cup { << "x" >> }

\* Cookie headers: what a browser sends for a stored cookie name=value
BrowserCookie(name, value) == name \o << "=" >> \o value
SampleToken == Btoa(Str(LatinSecret(1))).s
\* each header with the tokens it carries under the name subtrack_auth: no
\* cookie, one cookie, the cookie after another one, the cookie twice with
\* two values, and a cookie of another name
HeaderCases ==
  { [header |-> <<>>, tokens |-> {}] }
    \cup { [header |-> BrowserCookie(COOKIE_NAME, t), tokens |-> {t}] : t \in Tokens }
    \cup { [header |-> << "x", "=", "1", ";", " " >> \o BrowserCookie(COOKIE_NAME, SampleToken),
            tokens |-> {SampleToken}],
           [header |-> BrowserCookie(COOKIE_NAME, SampleToken) \o << ";", " " >>
                         \o BrowserCookie(COOKIE_NAME, << "x" >>),
            tokens |-> {SampleToken, << "x" >>}],
           [header |-> BrowserCookie(<< "x" >> \o COOKIE_NAME, SampleToken),
            tokens |-> {}] }
CookieHeaders == { c.header : c \in HeaderCases }

\* outcomes of request.formData().get('password')
Forms == { Null, [kind |-> "throws", s |-> <<>>] } \cup { Str(s) : s \in SecretStrings }

\* documents of the shape {jobs: [...], payments: [...]}
Job == JObj(<< JMem("id", JNum("1")) >>)
Payment == JObj(<< JMem("amount", JNum("2")) >>)
Dataset(jobList, paymentList) ==
  JObj(<< JMem("jobs", JArr(jobList)), JMem("payments", JArr(paymentList)) >>)
Jobs(n) == [i \in 1..n |-> Job]
Payments(n) == [i \in 1..n |-> Payment]
Datasets ==
  { Dataset(Jobs(nm[1]), Payments(nm[2])) :
      nm \in { x \in (0..MaxRecords) \X (0..MaxRecords) : x[1] + x[2] <= MaxRecords } }

HasMember(v, key, type) ==
  \E n \in 1..Len(v.k) : v.k[n].s = key /\ v.k[n].k[1].t = type
\* the shape {jobs: [...], payments: [...]}
IsDatasetShape(v) ==
  v.t = "obj" /\ Len(v.k) = 2 /\ HasMember(v, "jobs", "arr")
    /\ HasMember(v, "payments", "arr")

\* request bodies: the documents as JSON.stringify prints them, a document
\* written with white space, a repeated key and another number spelling,
\* other well-formed JSON, and texts that are not JSON
WellFormedBodies ==
  { JsonStringify(d) : d \in Datasets }
    \cup { << "{", " ", "\"jobs\"", ":", "[", "1.0", "]", ",", " ", "\"payments\"",
              ":", "[", "]", ",", "\"jobs\"", ":", "[", "]", " ", "}", " " >>,
           << "null" >>,
           << "{", "\"jobs\"", ":", "[", "]", "}" >> }
MalformedBodies ==
  { <<>>,
    << "{", "\"jobs\"", ":", "[", "]", ",", "\"payments\"", ":", "[" >>,
    << "[", "1", ",", "]" >> }
Bodies == WellFormedBodies \cup MalformedBodies

EmptyDataset == Dataset(<<>>, <<>>)
ErrorBody(message) == JObj(<< JMem("error", JStr(message)) >>)
SuccessBody == JObj(<< JMem("success", JBool(TRUE)) >>)

\* btoa, parseCookies, request.json(), JSON.stringify and the store's
\* get(key, 'json'), tabulated over the values that occur in the model
EncodedSecret == [v \in Secrets |-> Btoa(v)] @@ <<>>
ParsedCookies == [h \in CookieHeaders |-> parseCookies(h)] @@ <<>>
ParsedBody == [b \in Bodies |-> JsonParse(b)] @@ <<>>
JsonValues ==
  { ParsedBody[b].v : b \in Bodies }
    \cup { EmptyDataset, SuccessBody, ErrorBody("Unauthorized"), ErrorBody("SyntaxError"),
            ErrorBody("StoreError") }
Stringified == [v \in JsonValues |-> JsonStringify(v)] @@ <<>>
StoredTexts == { Stringified[v] : v \in JsonValues }
ParsedStored == [t \in StoredTexts |-> JsonParse(t)] @@ <<>>

(***************************************************************************)
(* Requests, responses and the key-value store.                            *)
(*                                                                         *)
(* A request is [method, path, cookie, body, form, up]: cookie is the      *)
(* Cookie header (empty when absent), body the JSON text of the body,      *)
(* form the outcome of request.formData() for the field "password"         *)
(* (a string, null when the field is missing, or "throws"), and up the     *)
(* outcomes of the upstream fetches made on its behalf.                    *)
(* The store holds at most one text under the key user_data.               *)
(***************************************************************************)
StartsWith(s, prefix) ==
  Len(s) >= Len(prefix) /\ SubSeq(s, 1, Len(prefix)) = prefix
Includes(s, ch) == \E i \in 1..Len(s) : s[i] = ch

KvEmpty == [present |-> FALSE, text |-> <<>>]
KvHolding(text) == [present |-> TRUE, text |-> text]
\* the store while it is out of order: get and put reject
FailingStore(store) ==
  [present |-> store.present, text |-> store.text, fails |-> TRUE]
StoreFails(store) == "fails" \in DOMAIN store
StoreContents(store) == [present |-> store.present, text |-> store.text]

NoSetCookie ==
  [present |-> FALSE, name |-> <<>>, value |-> <<>>, path |-> "",
   httpOnly |-> FALSE, secure |-> FALSE, sameSite |-> "", maxAge |-> 0]
\* `${COOKIE_NAME}=${value}; Path=/; HttpOnly; Secure; SameSite=Strict; Max-Age=${maxAge}`
SetCookie(value, maxAge) ==
  [present |-> TRUE, name |-> COOKIE_NAME, value |-> value, path |-> "/",
   httpOnly |-> TRUE, secure |-> TRUE, sameSite |-> "Strict", maxAge |-> maxAge]

\* new Response(body, {status, headers}); the status defaults to 200
Response(status, body) ==
  [status |-> status, body |-> body, text |-> <<>>, error |-> "",
   location |-> "", setCookie |-> NoSetCookie, headers |-> {}]
JsonResponse(status, v) ==
  [Response(status, "json") EXCEPT !.text = Stringified[v]]
\* the handler's promise rejects: no Response is produced
Unhandled == Response(0, "unhandled_exception")

serveLoginPage(error) ==
  [Response(200, "login_page") EXCEPT !.error = error,
                                      !.headers = {"Content-Type"}]

\* a plausible slip: the cookie's presence is checked, its value is not
checkAuthAnyToken(request, env) ==
  LET authToken == CookieGet(ParsedCookies[request.cookie], COOKIE_NAME)
  IN ~(authToken.kind = "undefined" \/ authToken.s = <<>>)

checkAuth(request, env) ==
  LET cookies == ParsedCookies[request.cookie]
      authToken == CookieGet(cookies, COOKIE_NAME)
  IN IF authToken.kind = "undefined" \/ authToken.s = <<>> THEN FALSE
     ELSE LET expectedToken == EncodedSecret[env.PASSWORD]
          IN IF ~expectedToken.ok THEN FALSE
             ELSE authToken.s = expectedToken.s

handleLogin(request, env) ==
  IF request.form.kind = "throws"
    THEN serveLoginPage("Login failed: formData")
  ELSE LET password == request.form IN
    IF StrictEq(password, env.PASSWORD) THEN
      LET token == EncodedSecret[env.PASSWORD] IN
      IF ~token.ok THEN serveLoginPage("Login failed: InvalidCharacterError")
      ELSE [Response(302, "empty") EXCEPT
              !.location = "/",
              !.setCookie = SetCookie(token.s, COOKIE_MAX_AGE)]
    ELSE serveLoginPage("Invalid password")

\* a plausible slip: the clearing cookie is set without its Path attribute,
\* so the browser keeps the cookie issued for /
handleLogoutOtherPath ==
  [Response(302, "empty") EXCEPT
     !.location = "/",
     !.setCookie = [SetCookie(<<>>, 0) EXCEPT !.path = ""]]

handleLogout ==
  [Response(302, "empty") EXCEPT !.location = "/",
                                 !.setCookie = SetCookie(<<>>, 0)]

\* the result of a handler: the response, the store afterwards, the store
\* operations performed and the upstream URLs requested
Result(resp, kv, kvLog, upstream) ==
  [resp |-> resp, kv |-> kv, kvLog |-> kvLog, upstream |-> upstream]

API_DATA == <<"/","a","p","i","/","d","a","t","a">>
API_PREFIX == <<"/","a","p","i","/">>
LOGIN_PATH == <<"/","l","o","g","i","n">>
LOGOUT_PATH == <<"/","l","o","g","o","u","t">>
INDEX_HTML == <<"/","i","n","d","e","x",".","h","t","m","l">>

\* store.get('user_data', 'json'): null when absent; throws on a text
\* that is not JSON
KvGetJson(kv) ==
  IF kv.present THEN ParsedStored[kv.text] ELSE [ok |-> TRUE, v |-> JNull]

\* a plausible slip: the stored value is returned without the `|| {...}`
getDataNoDefault(kv) ==
  Result([JsonResponse(200, KvGetJson(kv).v) EXCEPT !.headers = {"Content-Type"}],
         kv, << "get" >>, <<>>)

\* a plausible slip: an empty store is initialised by the first read
getDataSeedsStore(kv) ==
  LET data == KvGetJson(kv).v IN
  IF Truthy(data)
    THEN Result([JsonResponse(200, data) EXCEPT !.headers = {"Content-Type"}],
                kv, << "get" >>, <<>>)
    ELSE Result([JsonResponse(200, EmptyDataset) EXCEPT !.headers = {"Content-Type"}],
                KvHolding(Stringified[EmptyDataset]), << "get", "put" >>, <<>>)

\* GET /api/data (lines 88-93)
getData(kv) ==
  LET stored == KvGetJson(kv) IN
  IF StoreFails(kv) THEN Result(Unhandled, kv, << "get throws" >>, <<>>)
  ELSE IF ~stored.ok THEN Result(Unhandled, kv, << "get" >>, <<>>)
  ELSE LET data == stored.v IN
    Result([JsonResponse(200, IF Truthy(data) THEN data ELSE EmptyDataset)
              EXCEPT !.headers = {"Content-Type"}],
           kv, << "get" >>, <<>>)

\* a plausible slip: a value already stored is kept, the new one dropped
postDataKeepsFirst(request, kv) ==
  LET parsed == ParsedBody[request.body] IN
  IF ~parsed.ok
    THEN Result(JsonResponse(400, ErrorBody("SyntaxError")), kv, <<>>, <<>>)
    ELSE Result(JsonResponse(200, SuccessBody),
                IF kv.present THEN kv ELSE KvHolding(Stringified[parsed.v]),
                << "put" >>, <<>>)

\* a plausible slip: a body that does not parse is stored as null
postDataSwallowsParseError(request, kv) ==
  LET parsed == ParsedBody[request.body] IN
  Result(JsonResponse(200, SuccessBody),
         KvHolding(Stringified[parsed.v]), << "put" >>, <<>>)

\* POST /api/data (lines 94-102)
postData(request, kv) ==
  LET parsed == ParsedBody[request.body] IN
  IF ~parsed.ok
    THEN Result(JsonResponse(400, ErrorBody("SyntaxError")), kv, <<>>, <<>>)
  ELSE IF StoreFails(kv)
    THEN Result(JsonResponse(400, ErrorBody("StoreError")), kv, << "put throws" >>, <<>>)
    ELSE Result(JsonResponse(200, SuccessBody),
                KvHolding(Stringified[parsed.v]), << "put" >>, <<>>)

\* a plausible slip: the path is not compared, every POST under /api/ writes
handleAPIAnyPath(request, env) ==
  LET kv == env.SUBTRACK_DATA IN
  IF ~checkAuth(request, env)
    THEN Result(JsonResponse(401, ErrorBody("Unauthorized")), kv, <<>>, <<>>)
  ELSE IF request.method = "GET" THEN getData(kv)
  ELSE IF request.method = "POST" THEN postData(request, kv)
  ELSE Result(Response(404, "Not found"), kv, <<>>, <<>>)

\* handleAPI (lines 81-105)
handleAPI(request, env) ==
  LET kv == env.SUBTRACK_DATA IN
  IF ~checkAuth(request, env)
    THEN Result(JsonResponse(401, ErrorBody("Unauthorized")), kv, <<>>, <<>>)
  ELSE IF request.path = API_DATA /\ request.method = "GET" THEN getData(kv)
  ELSE IF request.path = API_DATA /\ request.method = "POST"
    THEN postData(request, kv)
  ELSE Result(Response(404, "Not found"), kv, <<>>, <<>>)

\* an upstream outcome: a response with a status and headers, or a network error
UpResponse(status, headers) ==
  [kind |-> "response", status |-> status, headers |-> headers]
UpNetworkError == [kind |-> "network_error", status |-> 0, headers |-> {}]

\* a plausible slip: a failed upstream fetch is attempted once more
proxyToGitHubRetrying(request, kv) ==
  LET path == IF request.path = << "/" >> \/ ~Includes(request.path, ".")
                THEN INDEX_HTML ELSE request.path
      githubUrl == GITHUB_ORIGIN \o GITHUB_PATH \o path
      response == IF request.up[1].kind = "network_error"
                    THEN request.up[2] ELSE request.up[1]
      attempts == IF request.up[1].kind = "network_error"
                    THEN << githubUrl, githubUrl >> ELSE << githubUrl >>
  IN
  IF response.kind = "network_error"
    THEN Result(Response(502, "Worker Exception"), kv, <<>>, attempts)
  ELSE IF ~(response.status >= 200 /\ response.status <= 299)
    THEN Result([Response(response.status, "Origin Error") EXCEPT
                   !.headers = {"Content-Type"}],
                kv, <<>>, attempts)
  ELSE
    Result([Response(response.status, "upstream") EXCEPT
              !.headers = (response.headers
                             \ {"X-Frame-Options", "Content-Security-Policy"})
                           \cup {"X-Proxied-By"}],
           kv, <<>>, attempts)

\* a plausible slip: the upstream response is relayed with its own headers
proxyToGitHubPassThrough(request, kv) ==
  LET path == IF request.path = << "/" >> \/ ~Includes(request.path, ".")
                THEN INDEX_HTML ELSE request.path
      githubUrl == GITHUB_ORIGIN \o GITHUB_PATH \o path
      response == request.up[1]
  IN
  IF response.kind = "network_error"
    THEN Result(Response(502, "Worker Exception"), kv, <<>>, << githubUrl >>)
  ELSE IF ~(response.status >= 200 /\ response.status <= 299)
    THEN Result([Response(response.status, "Origin Error") EXCEPT
                   !.headers = {"Content-Type"}],
                kv, <<>>, << githubUrl >>)
  ELSE
    Result([Response(response.status, "upstream") EXCEPT
              !.headers = response.headers],
           kv, <<>>, << githubUrl >>)

\* proxyToGitHub (lines 107-150)
proxyToGitHub(request, kv) ==
  LET path == IF request.path = << "/" >> \/ ~Includes(request.path, ".")
                THEN INDEX_HTML ELSE request.path
      githubUrl == GITHUB_ORIGIN \o GITHUB_PATH \o path
      response == request.up[1]
  IN
  IF response.kind = "network_error"
    THEN Result(Response(502, "Worker Exception"), kv, <<>>, << githubUrl >>)
  ELSE IF ~(response.status >= 200 /\ response.status <= 299) THEN
    IF response.status = 404 /\ ~Includes(path, ".") THEN
      \* return fetch(...) without await: its outcome is the handler's outcome
      LET second == request.up[2]
          indexUrl == GITHUB_ORIGIN \o GITHUB_PATH \o INDEX_HTML IN
      Result(IF second.kind = "network_error" THEN Unhandled
             ELSE [Response(second.status, "upstream") EXCEPT
                     !.headers = second.headers],
             kv, <<>>, << githubUrl, indexUrl >>)
    ELSE Result([Response(response.status, "Origin Error") EXCEPT
                   !.headers = {"Content-Type"}],
                kv, <<>>, << githubUrl >>)
  ELSE
    LET newHeaders ==
          (response.headers \ {"X-Frame-Options", "Content-Security-Policy"})
            \cup {"X-Proxied-By"} IN
    Result([Response(response.status, "upstream") EXCEPT !.headers = newHeaders],
           kv, <<>>, << githubUrl >>)

\* a plausible slip: the proxy is reached without the authentication check
fetchWithoutGate(request, env) ==
  IF StartsWith(request.path, API_PREFIX) THEN handleAPI(request, env)
  ELSE IF request.path = LOGIN_PATH /\ request.method = "POST"
    THEN Result(handleLogin(request, env), env.SUBTRACK_DATA, <<>>, <<>>)
  ELSE IF request.path = LOGOUT_PATH
    THEN Result(handleLogout, env.SUBTRACK_DATA, <<>>, <<>>)
  ELSE proxyToGitHub(request, env.SUBTRACK_DATA)

\* a plausible slip: the authentication check comes before the login and
\* logout routes
fetchGateFirst(request, env) ==
  IF StartsWith(request.path, API_PREFIX) THEN handleAPI(request, env)
  ELSE IF ~checkAuth(request, env)
    THEN Result(serveLoginPage(""), env.SUBTRACK_DATA, <<>>, <<>>)
  ELSE IF request.path = LOGIN_PATH /\ request.method = "POST"
    THEN Result(handleLogin(request, env), env.SUBTRACK_DATA, <<>>, <<>>)
  ELSE IF request.path = LOGOUT_PATH
    THEN Result(handleLogout, env.SUBTRACK_DATA, <<>>, <<>>)
  ELSE proxyToGitHub(request, env.SUBTRACK_DATA)

\* the worker's fetch handler (lines 12-36)
fetch(request, env) ==
  IF StartsWith(request.path, API_PREFIX) THEN handleAPI(request, env)
  ELSE IF request.path = LOGIN_PATH /\ request.method = "POST"
    THEN Result(handleLogin(request, env), env.SUBTRACK_DATA, <<>>, <<>>)
  ELSE IF request.path = LOGOUT_PATH
    THEN Result(handleLogout, env.SUBTRACK_DATA, <<>>, <<>>)
  ELSE IF ~checkAuth(request, env)
    THEN Result(serveLoginPage(""), env.SUBTRACK_DATA, <<>>, <<>>)
  ELSE proxyToGitHub(request, env.SUBTRACK_DATA)

(***************************************************************************)
(* The requests the model draws from.                                      *)
(***************************************************************************)
Methods == { "GET", "POST", "PUT" }
ApiPaths == { API_DATA, << "/","a","p","i","/","x" >> }
PagePaths ==
  { << "/" >>, << "/","d","a","s","h","b","o","a","r","d" >>,
    << "/","a","p","p",".","j","s" >>, << "/","a","p","i" >>,
    << "/","v",".","2","/","d" >> }
UpstreamOutcomes ==
  { UpResponse(200, {"Content-Type", "X-Frame-Options", "Content-Security-Policy"}),
    UpResponse(404, {"Content-Type"}),
    UpResponse(500, {}),
    UpNetworkError }

Request(method, path, cookie, body, form, up) ==
  [method |-> method, path |-> path, cookie |-> cookie, body |-> body,
   form |-> form, up |-> up]
NoUpstream == << UpNetworkError, UpNetworkError >>
\* requests to the data API: every method, sub-path, cookie and body
ApiRequests ==
  { Request(m, p, c, <<>>, Null, NoUpstream) :
      m \in Methods, p \in ApiPaths, c \in CookieHeaders }
    \cup { Request("POST", API_DATA, c, b, Null, NoUpstream) :
             c \in CookieHeaders, b \in Bodies }
\* reads of the dataset
ApiReads ==
  { Request("GET", API_DATA, c, <<>>, Null, NoUpstream) : c \in CookieHeaders }
\* login submissions, logout, and pages behind the gate
LoginRequests ==
  { Request("POST", LOGIN_PATH, c, <<>>, f, NoUpstream) :
      c \in CookieHeaders, f \in Forms }
LogoutRequests ==
  { Request(m, LOGOUT_PATH, c, <<>>, Null, NoUpstream) :
      m \in {"GET", "POST"}, c \in CookieHeaders }
PageRequests ==
  { Request("GET", p, c, <<>>, Null, << u, UpNetworkError >>) :
      p \in PagePaths \cup { LOGIN_PATH }, c \in CookieHeaders,
      u \in UpstreamOutcomes }
    \cup { Request("POST", << "/" >>, c, <<>>, Null, << UpNetworkError, UpNetworkError >>) :
             c \in CookieHeaders }

\* requests under which a collaborator may fail: the data API with and without
\* the session cookie, login submissions, and pages with every upstream outcome
SessionCookies == { <<>> } \cup { BrowserCookie(COOKIE_NAME, t) : t \in Tokens }
FaultRequests ==
  { Request("GET", API_DATA, c, <<>>, Null, NoUpstream) : c \in SessionCookies }
    \cup { Request("POST", API_DATA, c, b, Null, NoUpstream) :
             c \in SessionCookies,
             b \in { Stringified[d] : d \in Datasets } \cup MalformedBodies }
    \cup { Request("POST", LOGIN_PATH, <<>>, <<>>, f, NoUpstream) : f \in Forms }
    \cup { Request("GET", p, c, <<>>, Null, << u, UpNetworkError >>) :
             p \in { << "/","d","a","s","h","b","o","a","r","d" >>,
                     << "/","a","p","p",".","j","s" >> },
             c \in SessionCookies, u \in UpstreamOutcomes }

\* the requests of sessions: reads of the dataset and of the root page,
\* logout and login submissions
SessionRequests ==
  { Request("GET", API_DATA, c, <<>>, Null, NoUpstream) : c \in SessionCookies }
    \cup { Request("GET", << "/" >>, c, <<>>, Null,
                    << UpResponse(200, {"Content-Type"}), UpNetworkError >>) :
             c \in SessionCookies }
    \cup { Request("GET", LOGOUT_PATH, c, <<>>, Null, NoUpstream) :
             c \in SessionCookies }
    \cup { Request("POST", LOGIN_PATH, <<>>, <<>>, f, NoUpstream) : f \in Forms }

\* requests of every kind the router tells apart: the data API with every
\* method, sub-path and body, logout, login submissions and gated pages
StoreRequests ==
  { Request(m, p, c, <<>>, Null, NoUpstream) :
      m \in { "GET", "PUT" }, p \in ApiPaths, c \in SessionCookies }
    \cup { Request("POST", p, c, b, Null, NoUpstream) :
             p \in ApiPaths, c \in SessionCookies, b \in Bodies }
    \cup { Request(m, LOGOUT_PATH, c, <<>>, Null, NoUpstream) :
             m \in { "GET", "POST" }, c \in SessionCookies }
    \cup { r \in FaultRequests : ~StartsWith(r.path, API_PREFIX) }

NoRequest == Request("", <<>>, <<>>, <<>>, Null, <<>>)
NoResponse == Response(0, "none")

(***************************************************************************)
(* The gateway as a state machine: one action per request handled.         *)
(***************************************************************************)
VARIABLES
  PASSWORD,   \* env.PASSWORD
  kv,         \* env.SUBTRACK_DATA: the value under user_data
  req,        \* the request handled last (NoRequest when none)
  resp,       \* its response
  kvLog,      \* the store operations it performed
  upstream,   \* the upstream URLs it requested
  issued,     \* the credential of the last successful login, and its secret
  prevPut,    \* the body written by the request before it, when that was a put
  shapedOnly, \* every body written so far had the shape {jobs, payments}
  calls,      \* the invocations of handleAPI in progress, by arrival
  served      \* the exchanges of a session so far: what was presented, and
              \* whether it was accepted

gatewayVars ==
  << PASSWORD, kv, req, resp, kvLog, upstream, issued, prevPut, shapedOnly,
     calls, served >>

VARIABLES
  page,            \* "unmounted", "mounted" (App is running) or "unloaded"
  cookie,          \* the Cookie header the browser sends
  isLoading,       \* useState(true), line 258
  isSaving,        \* useState(false), line 259
  isInitialMount,  \* useRef(true), line 261
  jobs,            \* the working dataset: useState<Job[]>([]), line 236
  payments,        \*                      useState<Payment[]>([]), line 237
  timers,          \* the pending setTimeout callbacks, oldest first
  net,             \* the client's requests in flight
  reloadRequested, \* window.location.reload() was called
  sinceMutation,   \* milliseconds since the last local mutation, up to DEBOUNCE_MS
  burstLen,        \* mutations of the current burst, up to CountCap
  burstPosts,      \* saves dispatched since the burst began, up to CountCap
  lastPost,        \* the body of the save dispatched last
  updates          \* the state updates of loadData that are not yet rendered

clientVars ==
  << page, cookie, isLoading, isSaving, isInitialMount, jobs, payments, timers,
     net, reloadRequested, sinceMutation, burstLen, burstPosts, lastPost,
     updates >>

vars == << gatewayVars, clientVars >>

NoCredential == [present |-> FALSE, cookie |-> <<>>, secret |-> Undefined]
NoPut == [present |-> FALSE, body |-> <<>>]

GatewayInit ==
  /\ kv = KvEmpty
  /\ req = NoRequest
  /\ resp = NoResponse
  /\ kvLog = <<>>
  /\ upstream = <<>>
  /\ issued = NoCredential
  /\ prevPut = NoPut
  /\ shapedOnly = TRUE
  /\ calls = <<>>
  /\ served = <<>>

\* the worker handles request r with the store binding it is given: what
\* the handling leaves behind
Handled(r, store) ==
  LET out == fetch(r, [PASSWORD |-> PASSWORD, SUBTRACK_DATA |-> store]) IN
  /\ req' = r
  /\ resp' = out.resp
  /\ kv' = StoreContents(out.kv)
  /\ kvLog' = out.kvLog
  /\ upstream' = out.upstream
  /\ issued' = IF out.resp.status = 302 /\ out.resp.setCookie.maxAge > 0
                 THEN [present |-> TRUE,
                       cookie |-> BrowserCookie(out.resp.setCookie.name,
                                                out.resp.setCookie.value),
                       secret |-> PASSWORD]
                 ELSE issued
  /\ prevPut' = IF kvLog = << "put" >> THEN [present |-> TRUE, body |-> req.body]
                                      ELSE NoPut
  /\ shapedOnly' = (shapedOnly /\ (out.kvLog = << "put" >>
                                    => IsDatasetShape(ParsedBody[r.body].v)))

\* a plausible slip: the gateway remembers the cookies presented at logout
\* and treats a request carrying one of them as carrying none
HandledWithRevocation(r, store) ==
  IF \E k \in 1..Len(served) :
       served[k].kind = "logout" /\ served[k].cookie = r.cookie /\ r.cookie # <<>>
    THEN Handled([r EXCEPT !.cookie = <<>>], store)
    ELSE Handled(r, store)

\* the worker handles request r with the store binding it is given; it
\* keeps nothing else from one request to the next
Handling(r, store) == Handled(r, store)

HandleWith(r, store) ==
  Handling(r, store) /\ UNCHANGED << PASSWORD, calls, served >>

\* the worker handles request r
Handle(r) == HandleWith(r, kv)

\* a request of some other client of the gateway
Fetch(r) == Handle(r) /\ UNCHANGED clientVars

\* a request handled while the store works, or while it is out of order
FetchWithStore(r, storeFails) ==
  /\ HandleWith(r, IF storeFails THEN FailingStore(kv) ELSE kv)
  /\ UNCHANGED clientVars

\* one exchange of a session: the kind of the request, the Cookie header it
\* presented, and whether the gateway let it through (an authenticated
\* answer for a check, the redirect with the credential for a login)
Exchange(r, response) ==
  [kind |-> IF r.path = LOGOUT_PATH THEN "logout"
            ELSE IF r.path = LOGIN_PATH /\ r.method = "POST" THEN "login"
            ELSE "check",
   cookie |-> r.cookie,
   accepted |-> IF r.path = LOGOUT_PATH THEN FALSE
                ELSE IF r.path = LOGIN_PATH /\ r.method = "POST"
                  THEN response.status = 302
                ELSE IF StartsWith(r.path, API_PREFIX) THEN response.status # 401
                ELSE response.body # "login_page"]

\* a request of a session, kept in the record of its exchanges
FetchRecorded(r) ==
  /\ Len(served) < MaxServed
  /\ Handling(r, kv)
  /\ served' = Append(served, Exchange(r, resp'))
  /\ UNCHANGED << PASSWORD, calls >>
  /\ UNCHANGED clientVars

\* the deployment's secret is changed
SetSecret ==
  /\ PASSWORD' \in Secrets \ { PASSWORD }
  /\ req' = NoRequest
  /\ resp' = NoResponse
  /\ kvLog' = <<>>
  /\ upstream' = <<>>
  /\ prevPut' = NoPut
  /\ UNCHANGED << kv, issued, shapedOnly, calls, served >>
  /\ UNCHANGED clientVars

(***************************************************************************)
(* handleAPI step by step: an invocation runs until its next await, and    *)
(* the invocations in progress interleave at the awaits.  A call is        *)
(* [pc, request, data, resp, putSeq]: pc is the await it stands at ("json" *)
(* for request.json(), "put" for the store's put, "respond" for the return *)
(* after the put, "done"), data the parsed body, putSeq the position of    *)
(* its put among the puts of the calls in progress (0: none yet).          *)
(***************************************************************************)
\* the array under key of a dataset
CollectionOf(data, key) ==
  data.k[CHOOSE n \in 1..Len(data.k) : data.k[n].s = key].k[1].k

\* a plausible slip: the stored collections are kept and the new ones added
putDataMerging(store, data) ==
  LET old == KvGetJson(store).v IN
  IF store.present /\ IsDatasetShape(old) /\ IsDatasetShape(data)
    THEN KvHolding(JsonStringify(
           Dataset(CollectionOf(old, "jobs") \o CollectionOf(data, "jobs"),
                   CollectionOf(old, "payments") \o CollectionOf(data, "payments"))))
    ELSE KvHolding(JsonStringify(data))

\* env.SUBTRACK_DATA.put('user_data', JSON.stringify(data)) (line 97)
putData(store, data) == KvHolding(Stringified[data])

Call(pc, request, data, response, putSeq) ==
  [pc |-> pc, request |-> request, data |-> data, resp |-> response,
   putSeq |-> putSeq]

\* concurrent writers: POST /api/data with and without the session cookie
ConcurrentRequests ==
  { Request("POST", API_DATA, c, b, Null, NoUpstream) :
      c \in { <<>>, BrowserCookie(COOKIE_NAME, SampleToken) },
      b \in { Stringified[d] : d \in Datasets } \cup MalformedBodies }

ConcurrentUnchanged ==
  /\ UNCHANGED << PASSWORD, req, resp, kvLog, upstream, issued, prevPut, shapedOnly,
                  served >>
  /\ UNCHANGED clientVars

\* a request arrives: the router and checkAuth run (lines 16-17, 82-85)
Arrive(r) ==
  /\ Len(calls) < MaxConcurrent
  /\ calls' = Append(calls,
       IF ~checkAuth(r, [PASSWORD |-> PASSWORD, SUBTRACK_DATA |-> kv])
         THEN Call("done", r, JNull, JsonResponse(401, ErrorBody("Unauthorized")), 0)
         ELSE Call("json", r, JNull, NoResponse, 0))
  /\ UNCHANGED kv
  /\ ConcurrentUnchanged

\* await request.json() settles (line 96, catch at line 99)
ReadBody(k) ==
  /\ calls[k].pc = "json"
  /\ LET parsed == ParsedBody[calls[k].request.body] IN
     calls' = [calls EXCEPT ![k] =
       IF parsed.ok THEN [@ EXCEPT !.pc = "put", !.data = parsed.v]
       ELSE [@ EXCEPT !.pc = "done",
                      !.resp = JsonResponse(400, ErrorBody("SyntaxError"))]]
  /\ UNCHANGED kv
  /\ ConcurrentUnchanged

\* the store applies the put (line 97)
Put(k) ==
  /\ calls[k].pc = "put"
  /\ kv' = putData(kv, calls[k].data)
  /\ calls' = [calls EXCEPT
       ![k].pc = "respond",
       ![k].putSeq = 1 + Cardinality({ j \in 1..Len(calls) : calls[j].putSeq > 0 })]
  /\ ConcurrentUnchanged

\* await put settles and the handler returns (line 98)
Respond(k) ==
  /\ calls[k].pc = "respond"
  /\ calls' = [calls EXCEPT ![k].pc = "done",
                            ![k].resp = JsonResponse(200, SuccessBody)]
  /\ UNCHANGED kv
  /\ ConcurrentUnchanged

\* the responses have been delivered
Deliver ==
  /\ calls # <<>>
  /\ \A k \in 1..Len(calls) : calls[k].pc = "done"
  /\ calls' = <<>>
  /\ UNCHANGED kv
  /\ ConcurrentUnchanged

RequestArrives == \E r \in ConcurrentRequests : Arrive(r)
BodyRead == \E k \in 1..Len(calls) : ReadBody(k)
PutApplied == \E k \in 1..Len(calls) : Put(k)
HandlerReturns == \E k \in 1..Len(calls) : Respond(k)

ApiRequest == \E r \in ApiRequests : Fetch(r)
ApiRead == \E r \in ApiReads : Fetch(r)
LoginRequest == \E r \in LoginRequests : Fetch(r)
LogoutRequest == \E r \in LogoutRequests : Fetch(r)
PageRequest == \E r \in PageRequests : Fetch(r)
StoreRequest == \E r \in StoreRequests : Fetch(r)
SessionRequest == \E r \in SessionRequests : FetchRecorded(r)

(***************************************************************************)
(* The client sync controller: App (lines 234-296) and dataService.ts.     *)
(*                                                                         *)
(* Every handler runs to completion: a state update, the render it causes  *)
(* and the effects of that render are one step.  A timer is                *)
(* [current, jobs, payments, remaining]: current marks the timer that      *)
(* saveTimeoutRef.current names, jobs and payments are the arguments the   *)
(* callback closed over, remaining the milliseconds until it is due.       *)
(* A request in flight is [kind, request, status, text]: status is 0 until *)
(* the gateway has answered.                                               *)
(*                                                                         *)
(* The browser runs its tasks in the order in which they become runnable:  *)
(* the callback of a timer that is due runs before the clock advances and  *)
(* before the handler of an input event that arrives at or after the       *)
(* instant the timer came due.                                             *)
(***************************************************************************)
ClientInit ==
  /\ page = "unmounted"
  /\ cookie = BrowserCookie(COOKIE_NAME, SampleToken)
  /\ isLoading = TRUE
  /\ isSaving = FALSE
  /\ isInitialMount = TRUE
  /\ jobs = <<>>
  /\ payments = <<>>
  /\ timers = <<>>
  /\ net = <<>>
  /\ reloadRequested = FALSE
  /\ sinceMutation = DEBOUNCE_MS
  /\ burstLen = 0
  /\ burstPosts = 0
  /\ lastPost = <<>>
  /\ updates = <<>>

Remove(seq, i) == SubSeq(seq, 1, i - 1) \o SubSeq(seq, i + 1, Len(seq))
Min(a, b) == IF a < b THEN a ELSE b
Max(a, b) == IF a > b THEN a ELSE b

\* no timer is due: the event loop has no timer task waiting
NoTimerDue(pending) == \A i \in 1..Len(pending) : pending[i].remaining > 0

InFlight(kind, request) ==
  [kind |-> kind, request |-> request, status |-> 0, text |-> <<>>]

\* a plausible slip: the pending timer is not cancelled
debouncedSaveStacking(pending, jobsToSave, paymentsToSave) ==
  Append([i \in 1..Len(pending) |-> [pending[i] EXCEPT !.current = FALSE]],
         [current |-> TRUE, jobs |-> jobsToSave, payments |-> paymentsToSave,
          remaining |-> DEBOUNCE_MS])

\* a plausible slip: a pending timer is cancelled and the function returns
\* before setting the new one
debouncedSaveDropsReplacement(pending, jobsToSave, paymentsToSave) ==
  LET kept == SelectSeq(pending, LAMBDA t : ~t.current) IN
  IF kept # pending THEN kept
  ELSE Append(kept,
              [current |-> TRUE, jobs |-> jobsToSave, payments |-> paymentsToSave,
               remaining |-> DEBOUNCE_MS])

\* a plausible slip: the new timer keeps the deadline of the one it replaces
debouncedSaveKeepsDeadline(pending, jobsToSave, paymentsToSave) ==
  LET kept == SelectSeq(pending, LAMBDA t : ~t.current)
      old == SelectSeq(pending, LAMBDA t : t.current) IN
  Append(kept,
         [current |-> TRUE, jobs |-> jobsToSave, payments |-> paymentsToSave,
          remaining |-> IF old = <<>> THEN DEBOUNCE_MS ELSE old[1].remaining])

\* debouncedSave (lines 275-285): the timers after clearTimeout of the
\* current one and setTimeout of a new one
debouncedSave(pending, jobsToSave, paymentsToSave) ==
  LET kept == SelectSeq(pending, LAMBDA t : ~t.current) IN
  Append(kept,
         [current |-> TRUE, jobs |-> jobsToSave, payments |-> paymentsToSave,
          remaining |-> DEBOUNCE_MS])

\* a plausible slip: the effect does not look at isLoading
SaveEffectWithoutLoadingCheck(pending, initialMount, loading, js, ps) ==
  IF initialMount THEN [timers |-> pending, isInitialMount |-> FALSE]
  ELSE [timers |-> debouncedSave(pending, js, ps), isInitialMount |-> FALSE]

\* the save effect (lines 288-296), run after a render that changed jobs,
\* payments or isLoading: the timers and isInitialMount afterwards
SaveEffect(pending, initialMount, loading, js, ps) ==
  IF initialMount THEN [timers |-> pending, isInitialMount |-> FALSE]
  ELSE IF ~loading
    THEN [timers |-> debouncedSave(pending, js, ps), isInitialMount |-> FALSE]
  ELSE [timers |-> pending, isInitialMount |-> FALSE]

\* data.jobs || [] and data.payments || [] (lines 267-268)
MemberOrEmpty(data, key) ==
  IF data.t = "obj" /\ HasMember(data, key, "arr")
    THEN data.k[CHOOSE n \in 1..Len(data.k) : data.k[n].s = key].k[1].k
    ELSE <<>>

\* fetch(API_URL) / fetch(API_URL, {method: 'POST', ...}) of dataService.ts
LoadRequest == Request("GET", API_DATA, cookie, <<>>, Null, NoUpstream)
SaveRequest(js, ps) ==
  Request("POST", API_DATA, cookie, Stringified[Dataset(js, ps)], Null, NoUpstream)

\* the first render and its effects: the load effect (lines 264-272) issues
\* the GET, the save effect consumes isInitialMount
Mount ==
  /\ page = "unmounted"
  /\ page' = "mounted"
  /\ net' = Append(net, InFlight("load", LoadRequest))
  /\ LET e == SaveEffect(timers, isInitialMount, isLoading, jobs, payments) IN
       /\ timers' = e.timers
       /\ isInitialMount' = e.isInitialMount
  /\ UNCHANGED << cookie, isLoading, isSaving, jobs, payments, reloadRequested,
                  sinceMutation, burstLen, burstPosts, lastPost >>
  /\ UNCHANGED << gatewayVars, updates >>

\* the gateway answers a request of the client
Serve(i) ==
  /\ net[i].status = 0
  /\ Handle(net[i].request)
  /\ net' = [net EXCEPT ![i].status = resp'.status, ![i].text = resp'.text]
  /\ UNCHANGED << page, cookie, isLoading, isSaving, isInitialMount, jobs,
                  payments, timers, reloadRequested, sinceMutation, burstLen,
                  burstPosts, lastPost, updates >>

\* a plausible slip: fetchData rethrows instead of falling back, and loadData
\* stops before setIsLoading(false)
LoadCompletesWithoutFallback(i, ok) ==
  /\ page = "mounted"
  /\ net[i].kind = "load"
  /\ ok => net[i].status # 0
  /\ LET status == net[i].status
         good == ok /\ status >= 200 /\ status <= 299
         parsed == IF good THEN ParsedStored[net[i].text] ELSE ParseFail
         js == IF parsed.ok THEN MemberOrEmpty(parsed.v, "jobs") ELSE jobs
         ps == IF parsed.ok THEN MemberOrEmpty(parsed.v, "payments") ELSE payments
         e == SaveEffect(timers, isInitialMount, ~parsed.ok, js, ps)
     IN /\ reloadRequested' = (reloadRequested \/ (ok /\ status = 401))
        /\ jobs' = js
        /\ payments' = ps
        /\ isLoading' = ~parsed.ok
        /\ timers' = e.timers
        /\ isInitialMount' = e.isInitialMount
  /\ net' = Remove(net, i)
  /\ UNCHANGED << page, cookie, isSaving, sinceMutation, burstLen, burstPosts,
                  lastPost >>
  /\ UNCHANGED << gatewayVars, updates >>

\* fetchData (lines 18-38) resolves and loadData (lines 265-270) continues:
\* ok is FALSE when the promise of fetch or of response.json() rejected
\* (network failure, unparseable body)
LoadCompletes(i, ok) ==
  /\ page = "mounted"
  /\ net[i].kind = "load"
  /\ ok => net[i].status # 0
  /\ LET status == net[i].status
         good == ok /\ status >= 200 /\ status <= 299
         parsed == IF good THEN ParsedStored[net[i].text] ELSE ParseFail
         data == IF parsed.ok THEN parsed.v ELSE EmptyDataset
         js == MemberOrEmpty(data, "jobs")
         ps == MemberOrEmpty(data, "payments")
         e == SaveEffect(timers, isInitialMount, FALSE, js, ps)
     IN /\ reloadRequested' = (reloadRequested \/ (ok /\ status = 401))
        /\ jobs' = js
        /\ payments' = ps
        /\ isLoading' = FALSE
        /\ timers' = e.timers
        /\ isInitialMount' = e.isInitialMount
  /\ net' = Remove(net, i)
  /\ UNCHANGED << page, cookie, isSaving, sinceMutation, burstLen, burstPosts,
                  lastPost >>
  /\ UNCHANGED << gatewayVars, updates >>

\* setJobs(...), setPayments(...), setIsLoading(false) (lines 267-269)
LoadUpdates(js, ps) ==
  << [state |-> "jobs", value |-> js],
     [state |-> "payments", value |-> ps],
     [state |-> "isLoading", value |-> FALSE] >>

\* fetchData (lines 18-38) resolves and loadData (lines 265-270) makes its
\* three state updates; none of them is rendered yet
LoadResolves(i, ok) ==
  /\ page = "mounted"
  /\ net[i].kind = "load"
  /\ ok => net[i].status # 0
  /\ LET status == net[i].status
         good == ok /\ status >= 200 /\ status <= 299
         parsed == IF good THEN ParsedStored[net[i].text] ELSE ParseFail
         data == IF parsed.ok THEN parsed.v ELSE EmptyDataset
     IN /\ reloadRequested' = (reloadRequested \/ (ok /\ status = 401))
        /\ updates' = LoadUpdates(MemberOrEmpty(data, "jobs"),
                                  MemberOrEmpty(data, "payments"))
  /\ net' = Remove(net, i)
  /\ UNCHANGED << page, cookie, isLoading, isSaving, isInitialMount, jobs,
                  payments, timers, sinceMutation, burstLen, burstPosts, lastPost >>
  /\ UNCHANGED gatewayVars

\* the value of a piece of state after the updates of a batch
Updated(batch, state, old) ==
  IF \E k \in 1..Len(batch) : batch[k].state = state
    THEN batch[CHOOSE k \in 1..Len(batch) : batch[k].state = state].value
    ELSE old

\* React renders the first n pending updates in one render (all of them
\* when it batches, one when it does not) and runs the save effect, one of
\* whose dependencies has changed
RenderUpdates(n) ==
  /\ page = "mounted"
  /\ LET batch == SubSeq(updates, 1, n)
         js == Updated(batch, "jobs", jobs)
         ps == Updated(batch, "payments", payments)
         loading == Updated(batch, "isLoading", isLoading)
         e == SaveEffect(timers, isInitialMount, loading, js, ps)
     IN /\ jobs' = js
        /\ payments' = ps
        /\ isLoading' = loading
        /\ timers' = e.timers
        /\ isInitialMount' = e.isInitialMount
  /\ updates' = SubSeq(updates, n + 1, Len(updates))
  /\ UNCHANGED << page, cookie, isSaving, net, reloadRequested, sinceMutation,
                  burstLen, burstPosts, lastPost >>
  /\ UNCHANGED gatewayVars

\* the working datasets a local mutation can lead to: a record added or
\* removed, a record edited in place, everything wiped
Mutations(js, ps) ==
  { [jobs |-> js, payments |-> ps], [jobs |-> <<>>, payments |-> <<>>] }
    \cup (IF Len(js) + Len(ps) < MaxRecords
            THEN { [jobs |-> << Job >> \o js, payments |-> ps],
                   [jobs |-> js, payments |-> << Payment >> \o ps] }
            ELSE {})
    \cup (IF Len(js) > 0 THEN { [jobs |-> Tail(js), payments |-> ps] } ELSE {})
    \cup (IF Len(ps) > 0 THEN { [jobs |-> js, payments |-> Tail(ps)] } ELSE {})

\* a local mutation (lines 298-322, 369-379, 832): setJobs / setPayments
\* with new arrays, the render, and the save effect
Mutate(m) ==
  /\ page = "mounted"
  /\ ~isLoading
  /\ NoTimerDue(timers)
  /\ jobs' = m.jobs
  /\ payments' = m.payments
  /\ LET e == SaveEffect(timers, isInitialMount, isLoading, m.jobs, m.payments) IN
       /\ timers' = e.timers
       /\ isInitialMount' = e.isInitialMount
  /\ sinceMutation' = 0
  /\ burstLen' = IF sinceMutation < DEBOUNCE_MS THEN Min(burstLen + 1, CountCap) ELSE 1
  /\ burstPosts' = IF sinceMutation < DEBOUNCE_MS THEN burstPosts ELSE 0
  /\ UNCHANGED << page, cookie, isLoading, isSaving, net, reloadRequested, lastPost >>
  /\ UNCHANGED << gatewayVars, updates >>

\* TickMs milliseconds pass
Tick ==
  /\ page = "mounted"
  /\ NoTimerDue(timers)
  /\ timers' = [i \in 1..Len(timers) |->
                  [timers[i] EXCEPT !.remaining = Max(timers[i].remaining - TickMs, 0)]]
  /\ sinceMutation' = Min(sinceMutation + TickMs, DEBOUNCE_MS)
  /\ (timers' # timers \/ sinceMutation' # sinceMutation)
  /\ UNCHANGED << page, cookie, isLoading, isSaving, isInitialMount, jobs, payments,
                  net, reloadRequested, burstLen, burstPosts, lastPost >>
  /\ UNCHANGED << gatewayVars, updates >>

\* a timer is due and its callback runs (lines 280-284) up to the fetch of
\* saveData (line 45)
TimerFires(i) ==
  /\ page = "mounted"
  /\ timers[i].remaining = 0
  /\ Len(net) < MaxInFlight
  /\ timers' = Remove(timers, i)
  /\ isSaving' = TRUE
  /\ LET r == SaveRequest(timers[i].jobs, timers[i].payments) IN
       /\ net' = Append(net, InFlight("save", r))
       /\ lastPost' = r.body
  /\ burstPosts' = Min(burstPosts + 1, CountCap)
  /\ UNCHANGED << page, cookie, isLoading, isInitialMount, jobs, payments,
                  reloadRequested, sinceMutation, burstLen >>
  /\ UNCHANGED << gatewayVars, updates >>

\* a plausible slip: a save that failed is scheduled again
SaveCompletesRetrying(i, ok) ==
  /\ page = "mounted"
  /\ net[i].kind = "save"
  /\ ok => net[i].status # 0
  /\ reloadRequested' = (reloadRequested \/ (ok /\ net[i].status = 401))
  /\ isSaving' = FALSE
  /\ net' = Remove(net, i)
  /\ timers' = IF ok /\ net[i].status >= 200 /\ net[i].status <= 299 THEN timers
               ELSE Append(SelectSeq(timers, LAMBDA t : ~t.current),
                           [current |-> TRUE, jobs |-> jobs, payments |-> payments,
                            remaining |-> DEBOUNCE_MS])
  /\ UNCHANGED << page, cookie, isLoading, isInitialMount, jobs, payments,
                  sinceMutation, burstLen, burstPosts, lastPost >>
  /\ UNCHANGED << gatewayVars, updates >>

\* saveData (lines 43-66) resolves and the timer callback finishes
SaveCompletes(i, ok) ==
  /\ page = "mounted"
  /\ net[i].kind = "save"
  /\ ok => net[i].status # 0
  /\ reloadRequested' = (reloadRequested \/ (ok /\ net[i].status = 401))
  /\ isSaving' = FALSE
  /\ net' = Remove(net, i)
  /\ UNCHANGED << page, cookie, isLoading, isInitialMount, jobs, payments, timers,
                  sinceMutation, burstLen, burstPosts, lastPost >>
  /\ UNCHANGED << gatewayVars, updates >>

\* the session cookie's Max-Age passes and the browser drops it
CookieExpires ==
  /\ cookie # <<>>
  /\ cookie' = <<>>
  /\ UNCHANGED << page, isLoading, isSaving, isInitialMount, jobs, payments, timers,
                  net, reloadRequested, sinceMutation, burstLen, burstPosts, lastPost >>
  /\ UNCHANGED << gatewayVars, updates >>

\* the reload that was requested takes the page away, with its timers and
\* the callbacks of its requests
Unload ==
  /\ page = "mounted"
  /\ reloadRequested
  /\ page' = "unloaded"
  /\ timers' = <<>>
  /\ net' = <<>>
  /\ UNCHANGED << cookie, isLoading, isSaving, isInitialMount, jobs, payments,
                  reloadRequested, sinceMutation, burstLen, burstPosts, lastPost >>
  /\ UNCHANGED << gatewayVars, updates >>

ServeRequest == \E i \in 1..Len(net) : Serve(i)
LoadDone == \E i \in 1..Len(net), ok \in BOOLEAN : LoadCompletes(i, ok)
LocalMutation == \E m \in Mutations(jobs, payments) : Mutate(m)
TimerExpiry == \E i \in 1..Len(timers) : TimerFires(i)
SaveDone == \E i \in 1..Len(net), ok \in BOOLEAN : SaveCompletes(i, ok)
LoadResolved == \E i \in 1..Len(net), ok \in BOOLEAN : LoadResolves(i, ok)
Rendered == \E n \in 1..Len(updates) : RenderUpdates(n)

(***************************************************************************)
(* Specifications.                                                         *)
(***************************************************************************)
Init == PASSWORD \in Secrets /\ GatewayInit /\ ClientInit

\* the gateway under logins, logouts, page requests and reads of the dataset
Next == LoginRequest \/ LogoutRequest \/ PageRequest \/ ApiRead \/ SetSecret
Spec == Init /\ [][Next]_vars

\* the gateway under requests to the data API, for each value of the secret
SpecData == Init /\ [][ApiRequest]_vars

\* the gateway while its collaborators may fail
FaultyRequest ==
  \E r \in FaultRequests, storeFails \in BOOLEAN : FetchWithStore(r, storeFails)
SpecFaults == Init /\ [][FaultyRequest]_vars

\* the store at the start: empty, or a dataset saved earlier
StoredAtStart == { KvEmpty } \cup { KvHolding(Stringified[d]) : d \in Datasets }

\* the gateway under concurrent writers
InitConcurrent ==
  /\ PASSWORD = Str(LatinSecret(1))
  /\ kv \in StoredAtStart
  /\ req = NoRequest
  /\ resp = NoResponse
  /\ kvLog = <<>>
  /\ upstream = <<>>
  /\ issued = NoCredential
  /\ prevPut = NoPut
  /\ shapedOnly = TRUE
  /\ calls = <<>>
  /\ served = <<>>
  /\ ClientInit
NextConcurrent ==
  \/ RequestArrives
  \/ BodyRead
  \/ PutApplied
  \/ HandlerReturns
  \/ Deliver
SpecConcurrent == InitConcurrent /\ [][NextConcurrent]_vars

\* one client and the gateway, with the secret the client logged in under
InitClient ==
  /\ PASSWORD = Str(LatinSecret(1))
  /\ kv \in StoredAtStart
  /\ req = NoRequest
  /\ resp = NoResponse
  /\ kvLog = <<>>
  /\ upstream = <<>>
  /\ issued = NoCredential
  /\ prevPut = NoPut
  /\ shapedOnly = TRUE
  /\ calls = <<>>
  /\ served = <<>>
  /\ ClientInit
NextClient ==
  \/ Mount
  \/ ServeRequest
  \/ LoadDone
  \/ LocalMutation
  \/ Tick
  \/ TimerExpiry
  \/ SaveDone
  \/ CookieExpires
  \/ Unload
SpecClient == InitClient /\ [][NextClient]_vars

\* the client while the platform keeps going: the clock advances, a timer
\* that is due runs its callback, and every request settles (the promise of
\* fetch resolves or rejects)
ClientFairness ==
  /\ WF_vars(Tick)
  /\ WF_vars(TimerExpiry)
  /\ WF_vars(LoadDone)
  /\ WF_vars(SaveDone)
SpecClientLive == SpecClient /\ ClientFairness

\* saveData returns true (line 61): the save was answered with a 2xx status
SaveSucceeds ==
  \E i \in 1..Len(net) :
    SaveCompletes(i, TRUE) /\ net[i].status >= 200 /\ net[i].status <= 299
\* the client while no save of its fails: a save completes only with success
NextSavesSucceed ==
  \/ Mount
  \/ ServeRequest
  \/ LoadDone
  \/ LocalMutation
  \/ Tick
  \/ TimerExpiry
  \/ SaveSucceeds
  \/ CookieExpires
  \/ Unload
SpecSavesSucceed == InitClient /\ [][NextSavesSucceed]_vars

\* the client when the state updates of the load are rendered in one, two or
\* three renders
NextRenders ==
  \/ Mount
  \/ ServeRequest
  \/ LoadResolved
  \/ Rendered
  \/ LocalMutation
  \/ Tick
  \/ TimerExpiry
  \/ SaveDone
  \/ CookieExpires
  \/ Unload
SpecRenders == InitClient /\ [][NextRenders]_vars

\* the gateway over sessions of up to MaxServed exchanges, for each value of
\* the secret
SpecSession == Init /\ [][SessionRequest]_vars

\* the gateway under requests of every kind, from a store that is empty or
\* holds a dataset
SpecStore == InitClient /\ [][StoreRequest]_vars

(***************************************************************************)
(* Vocabulary of the properties.                                           *)
(***************************************************************************)
\* the tokens a Cookie header carries under the session cookie's name
CarriedBy ==
  [h \in CookieHeaders |-> UNION { c.tokens : c \in { x \in HeaderCases : x.header = h } }]
    @@ <<>>
CarriedTokens(h) == CarriedBy[h]
\* the header carries the encoding of the secret
CarriesEncoding(r, secret) ==
  /\ EncodedSecret[secret].ok
  /\ EncodedSecret[secret].s \in CarriedTokens(r.cookie)
\* a request the gateway is to authenticate: a secret is configured and the
\* header carries its (non-empty) encoding and no other token
Authenticated(r, secret) ==
  /\ Configured(secret)
  /\ EncodedSecret[secret].ok
  /\ EncodedSecret[secret].s # <<>>
  /\ CarriedTokens(r.cookie) = { EncodedSecret[secret].s }
IsApi(r) == StartsWith(r.path, API_PREFIX)
IsLoginSubmission(r) == r.path = LOGIN_PATH /\ r.method = "POST"
IsLogout(r) == r.path = LOGOUT_PATH
IsGated(r) == r # NoRequest /\ ~IsApi(r) /\ ~IsLoginSubmission(r) /\ ~IsLogout(r)
IsDataRead(r) == r.path = API_DATA /\ r.method = "GET"
IsDataWrite(r) == r.path = API_DATA /\ r.method = "POST"
\* a JSON body {"error": <message>}
HasError(response) ==
  /\ response.body = "json"
  /\ Len(response.text) = 5
  /\ SubSeq(response.text, 1, 3) = << "{", "\"error\"", ":" >>
  /\ response.text[5] = "}"
IsLoginPage(response) ==
  /\ response.status = 200
  /\ response.body = "login_page"
  /\ response.location = ""
  /\ ~response.setCookie.present
EmptyDatasetText ==
  << "{", "\"jobs\"", ":", "[", "]", ",", "\"payments\"", ":", "[", "]", "}" >>

(***************************************************************************)
(* C1. A request under /api/ whose cookie does not carry the encoding of   *)
(* the configured secret is answered 401 with an error body, whatever its  *)
(* method, sub-path and body, and the store is neither read nor written.   *)
(***************************************************************************)
C1_UnauthenticatedApiIs401 ==
  [][ (IsApi(req') /\ Configured(PASSWORD) /\ ~CarriesEncoding(req', PASSWORD))
        => /\ resp'.status = 401
           /\ HasError(resp')
           /\ kvLog' = <<>>
           /\ kv' = kv ]_vars

C1_Witness ==
  /\ IsDataWrite(req) /\ req.body \in WellFormedBodies
  /\ Configured(PASSWORD) /\ ~CarriesEncoding(req, PASSWORD)
  /\ CarriedTokens(req.cookie) # {}
  /\ resp.status = 401
  /\ kv.present

(***************************************************************************)
(* C2. With a secret S configured, a presented token t is accepted if and  *)
(* only if t is the encoding of S.  (Stated for the headers that carry     *)
(* exactly one token.)                                                     *)
(***************************************************************************)
C2_AcceptedIffEncoding ==
  (req # NoRequest /\ (IsApi(req) \/ IsGated(req)) /\ Configured(PASSWORD)
     /\ Cardinality(CarriedTokens(req.cookie)) = 1)
    => ((IF IsApi(req) THEN resp.status # 401 ELSE resp.body # "login_page")
          <=> CarriesEncoding(req, PASSWORD))

(***************************************************************************)
(* C3. POST /login answers 302 to / with the credential in a Set-Cookie    *)
(* if and only if the submitted password equals the configured secret;     *)
(* otherwise the login page, status 200, an error message, no cookie.      *)
(***************************************************************************)
C3_LoginIffSecret ==
  (IsLoginSubmission(req) /\ Configured(PASSWORD))
    => IF req.form.kind = "string" /\ req.form.s = PASSWORD.s
         THEN /\ resp.status = 302
              /\ resp.location = "/"
              /\ resp.setCookie.present
              /\ resp.setCookie.maxAge > 0
         ELSE /\ IsLoginPage(resp)
              /\ resp.error # ""

(***************************************************************************)
(* C4. The token set by a successful POST /login under the secret S passes *)
(* validation on a later request: GET /api/data with that cookie is 200.   *)
(***************************************************************************)
C4_IssuedTokenValidates ==
  (issued.present /\ issued.secret = PASSWORD /\ IsDataRead(req)
     /\ req.cookie = issued.cookie)
    => resp.status = 200

(***************************************************************************)
(* C5. A request that is not under /api/, not POST /login and not /logout, *)
(* and carries no valid credential, is answered with the login page itself *)
(* (200, no redirect) and nothing is requested from the upstream origin;   *)
(* the proxy is reached only by requests that carry a valid credential.    *)
(***************************************************************************)
C5_GateSubstitutesLoginPage ==
  (IsGated(req) /\ Configured(PASSWORD))
    => /\ ~CarriesEncoding(req, PASSWORD) => (IsLoginPage(resp) /\ upstream = <<>>)
       /\ upstream # <<>> => CarriesEncoding(req, PASSWORD)

C5_Witness ==
  /\ IsGated(req) /\ Configured(PASSWORD) /\ ~CarriesEncoding(req, PASSWORD)
  /\ CarriedTokens(req.cookie) # {}
  /\ Includes(req.path, ".")
  /\ IsLoginPage(resp)

(***************************************************************************)
(* C6. An authenticated POST /api/data with a document D of the shape      *)
(* {jobs, payments}, immediately followed by an authenticated GET, returns *)
(* a document equal to D, whatever the store held before.                  *)
(***************************************************************************)
C6_PutThenGetReturnsDocument ==
  (prevPut.present /\ IsDatasetShape(ParsedBody[prevPut.body].v)
     /\ IsDataRead(req) /\ Authenticated(req, PASSWORD))
    => /\ resp.status = 200
       /\ resp.body = "json"
       /\ JsonParse(resp.text) = [ok |-> TRUE, v |-> ParsedBody[prevPut.body].v]

C6_Witness ==
  /\ prevPut.present /\ IsDatasetShape(ParsedBody[prevPut.body].v)
  /\ prevPut.body # JsonStringify(ParsedBody[prevPut.body].v)
  /\ IsDataRead(req) /\ Authenticated(req, PASSWORD)
  /\ resp.status = 200

(***************************************************************************)
(* C7. As stated: in every reachable state the stored document and the     *)
(* document an authenticated GET returns have the shape {jobs, payments}.  *)
(* As amended: they have it as long as every body written had it.          *)
(***************************************************************************)
ShapeKept ==
  /\ kv.present => IsDatasetShape(ParsedStored[kv.text].v)
  /\ (IsDataRead(req) /\ resp.status = 200)
       => (resp.body = "json" /\ IsDatasetShape(ParsedStored[resp.text].v))

C7_AlwaysDatasetShape == ShapeKept

C7_ShapedWritesKeepShape == shapedOnly => ShapeKept

C7_Witness ==
  /\ shapedOnly /\ kv.present /\ kv.text # EmptyDatasetText
  /\ IsDataRead(req) /\ resp.status = 200

(***************************************************************************)
(* C8. An authenticated POST /api/data whose body is not JSON is answered  *)
(* 400 with an error message; the stored dataset stays as it was.          *)
(***************************************************************************)
C8_MalformedBodyIs400 ==
  [][ (IsDataWrite(req') /\ req'.body \in MalformedBodies
         /\ Authenticated(req', PASSWORD))
        => /\ resp'.status = 400
           /\ HasError(resp')
           /\ kvLog' = <<>>
           /\ kv' = kv ]_vars

C8_Witness ==
  /\ IsDataWrite(req) /\ req.body \in MalformedBodies /\ req.body # <<>>
  /\ Authenticated(req, PASSWORD)
  /\ resp.status = 400
  /\ kv.present

(***************************************************************************)
(* C9. An authenticated GET /api/data on a store that holds no value       *)
(* returns 200 with exactly {jobs: [], payments: []} and writes nothing.   *)
(***************************************************************************)
C9_EmptyStoreReadsEmptyDataset ==
  [][ (~kv.present /\ IsDataRead(req') /\ Authenticated(req', PASSWORD))
        => /\ resp'.status = 200
           /\ resp'.body = "json"
           /\ resp'.text = EmptyDatasetText
           /\ kvLog' = << "get" >>
           /\ kv' = kv ]_vars

C9_Witness ==
  /\ ~kv.present /\ IsDataRead(req) /\ Authenticated(req, PASSWORD)
  /\ resp.status = 200

\* C10: in Ready, a burst of K >= 1 local mutations, each following the one
\* before it by less than the debounce window, results in exactly one POST
\* /api/data whose payload is the working dataset after the K-th mutation;
\* every mutation cancels the pending timer and replaces it, so that timers
\* never stack.  At every moment of a burst either nothing has been posted and
\* exactly one timer is pending, holding the dataset as the last mutation left
\* it, or the window has elapsed, that timer has run, and the one POST it
\* dispatched carries that dataset.
C10_BurstYieldsOneSave ==
  /\ Len(timers) <= 1
  /\ (page = "mounted" /\ burstLen >= 1) =>
       /\ burstPosts <= 1
       /\ burstPosts = 0 =>
            /\ Len(timers) = 1
            /\ timers[1].current
            /\ timers[1].jobs = jobs /\ timers[1].payments = payments
            /\ (timers[1].remaining = 0) <=> (sinceMutation = DEBOUNCE_MS)
       /\ burstPosts = 1 =>
            /\ timers = <<>>
            /\ sinceMutation = DEBOUNCE_MS
            /\ lastPost = Stringified[Dataset(jobs, payments)]

\* a burst of two or more mutations has been saved, and it left a record
C10_Witness ==
  /\ page = "mounted" /\ burstLen >= 2 /\ burstPosts = 1
  /\ Len(jobs) + Len(payments) > 0
  /\ \E i \in 1..Len(net) :
       /\ net[i].kind = "save"
       /\ net[i].request.method = "POST" /\ net[i].request.path = API_DATA
       /\ net[i].request.body = lastPost

\* the saves of the client that have been dispatched and have not completed
SavesInFlight == { i \in 1..Len(net) : net[i].kind = "save" }

\* C11: completing the initial load does not trigger a save: as long as the
\* user has made no local mutation, no save is scheduled (no timer is
\* pending) and no POST /api/data has been issued.
C11_LoadSchedulesNoSave ==
  (page = "mounted" /\ burstLen = 0) =>
    /\ timers = <<>>
    /\ SavesInFlight = {}
    /\ burstPosts = 0

\* C12: at any time at most one save request of the client is in flight: no
\* POST /api/data is dispatched while an earlier one has not completed.
C12_AtMostOneSaveInFlight == Cardinality(SavesInFlight) <= 1

\* saveData returns false: the fetch rejected or the status is not 2xx
SaveFails(i, ok) ==
  SaveCompletes(i, ok) /\ ~(ok /\ net[i].status >= 200 /\ net[i].status <= 299)

\* what every failure of a save leaves alone: the working dataset, the
\* pending timer, and the other requests (nothing is scheduled or dispatched)
FailureKeeps(i) ==
  /\ jobs' = jobs /\ payments' = payments
  /\ timers' = timers
  /\ net' = Remove(net, i)
  /\ page' = page

LoadsInFlight == { i \in 1..Len(net) : net[i].kind = "load" }

\* C14: on load the client issues exactly one GET /api/data, and whatever its
\* outcome (success, 401, another status, network failure, unparseable body)
\* the controller leaves Loading for Ready: with the dataset the server sent
\* on success, with empty collections on any failure; a 401 also requests a
\* reload of the page.  While Loading exactly one GET is in flight, in Ready
\* none is, and once its request settles the controller is Ready.
C14_LoadEndsInReady ==
  /\ (page = "mounted" /\ isLoading) ~> ~isLoading
  /\ [](page = "mounted" =>
          /\ Cardinality(LoadsInFlight) = IF isLoading THEN 1 ELSE 0
          /\ \A i \in LoadsInFlight :
               net[i].request.method = "GET" /\ net[i].request.path = API_DATA)
  /\ [][\A i \in 1..Len(net), ok \in BOOLEAN :
         LoadCompletes(i, ok) =>
           /\ ~isLoading'
           /\ IF ok /\ net[i].status >= 200 /\ net[i].status <= 299
                THEN Stringified[Dataset(jobs', payments')] = net[i].text
                ELSE jobs' = <<>> /\ payments' = <<>>
           /\ reloadRequested' = (ok /\ net[i].status = 401)]_vars

\* a load that failed with 401 has left the client Ready with empty
\* collections although the store holds a record
C14_Witness ==
  /\ page = "mounted" /\ ~isLoading /\ reloadRequested
  /\ burstLen = 0 /\ jobs = <<>> /\ payments = <<>>
  /\ kv.present /\ kv.text # Stringified[EmptyDataset]

\* C15: a save is never dispatched sooner than the full quiet period after
\* the most recent local mutation: whenever a timer's callback issues its
\* POST /api/data (one more save is in flight), at least DEBOUNCE_MS have
\* passed since the last mutation.
C15_NoSaveBeforeQuietPeriod ==
  [][TimerExpiry =>
       /\ sinceMutation >= DEBOUNCE_MS
       /\ Cardinality(SavesInFlight)' = Cardinality(SavesInFlight) + 1]_vars

\* the save of a burst of two mutations has just been dispatched, the full
\* quiet period after the second
C15_Witness ==
  /\ page = "mounted" /\ burstLen >= 2 /\ burstPosts = 1
  /\ sinceMutation = DEBOUNCE_MS /\ isSaving
  /\ \E i \in SavesInFlight : net[i].status = 0 /\ net[i].request.body = lastPost

\* the save of the current burst has been dispatched with the working dataset
BurstSaved ==
  burstPosts >= 1 /\ lastPost = Stringified[Dataset(jobs, payments)]

\* C16: every local mutation made in Ready is eventually persisted-attempted:
\* while the page stays open and timers fire, either the user keeps mutating
\* for ever, or again and again every mutation made so far has been
\* dispatched in a POST /api/data that carries the working dataset (the save
\* may be rescheduled by later mutations but is never dropped).
C16_MutationIsEventuallySaved ==
  \/ []<>(page # "mounted" \/ burstLen = 0 \/ BurstSaved)
  \/ []<><<LocalMutation>>_vars

\* a mutation is waiting for its timer
C16_Witness ==
  /\ page = "mounted" /\ burstLen >= 1 /\ burstPosts = 0
  /\ Len(timers) = 1 /\ timers[1].remaining > 0 /\ sinceMutation > 0
  /\ Len(jobs) + Len(payments) > 0

\* C17: for an authenticated request to a path without a file extension,
\* when the upstream answers 404 the proxy issues exactly one further
\* upstream request, to the fixed index document, and the caller receives the
\* response of that second request, whatever its status.
C17_NotFoundFallsBackToIndex ==
  ( /\ IsGated(req) /\ Authenticated(req, PASSWORD)
    /\ ~Includes(req.path, ".")
    /\ req.up[1].kind = "response" /\ req.up[1].status = 404 ) =>
      /\ Len(upstream) = 2
      /\ upstream[2] = GITHUB_ORIGIN \o GITHUB_PATH \o INDEX_HTML
      /\ resp.status = req.up[2].status

\* C18: for every request and every failure of a collaborator (store get or
\* put throwing, upstream fetch failing, request body unreadable) the fetch
\* handler returns an HTTP response: no exception leaves the router.
C18_EveryRequestIsAnswered ==
  req # NoRequest => (resp # Unhandled /\ resp.status >= 200 /\ resp.status <= 599)

\* the calls that have applied their put
Writers == { k \in 1..Len(calls) : calls[k].putSeq > 0 }

\* C19: when authenticated POST /api/data requests with documents D1 and D2
\* are handled concurrently, both are acknowledged with success and no
\* conflict signal, and once all have returned the store holds exactly the
\* document of the request whose put was applied last, never a mixture.
C19_LastWriterWins ==
  /\ \A k \in 1..Len(calls) :
       (calls[k].pc = "done" /\ calls[k].putSeq > 0) =>
         calls[k].resp = JsonResponse(200, SuccessBody)
  /\ \A k \in 1..Len(calls) :
       ( /\ calls[k].pc = "done"
         /\ checkAuth(calls[k].request, [PASSWORD |-> PASSWORD, SUBTRACK_DATA |-> kv])
         /\ ParsedBody[calls[k].request.body].ok ) => calls[k].putSeq > 0
  /\ ( /\ \A k \in 1..Len(calls) : calls[k].pc = "done"
       /\ Writers # {} ) =>
         \E k \in Writers :
           /\ calls[k].putSeq = Cardinality(Writers)
           /\ kv.present
           /\ kv.text = Stringified[ParsedBody[calls[k].request.body].v]

\* two writers with different documents have both returned, and the put of
\* the one that arrived first was applied last
C19_Witness ==
  /\ Len(calls) >= 2
  /\ \A k \in 1..Len(calls) : calls[k].pc = "done"
  /\ calls[1].putSeq = 2 /\ calls[2].putSeq = 1
  /\ calls[1].request.body # calls[2].request.body
  /\ kv.text = calls[1].request.body

\* the answers of the login handler: the redirect that sets the credential,
\* or the login page with a message; the gate's login page has no message
IsLoginAnswer(response) ==
  \/ /\ response.status = 302 /\ response.location = "/"
     /\ response.setCookie.present /\ response.setCookie.maxAge = COOKIE_MAX_AGE
  \/ IsLoginPage(response) /\ response.error # ""
\* the answer of the logout handler: the redirect that expires the credential
IsLogoutAnswer(response) ==
  /\ response.status = 302 /\ response.location = "/"
  /\ response.setCookie.present /\ response.setCookie.maxAge = 0
  /\ response.setCookie.value = <<>>

\* C20: the router matches POST /login and /logout before the authentication
\* gate: such a request carrying no credential or an invalid one is answered
\* by the login or the logout handler, never by the gate's login page nor by
\* a 401, and nothing is requested upstream.
C20_LoginAndLogoutBypassGate ==
  ~CarriesEncoding(req, PASSWORD) =>
    /\ IsLoginSubmission(req) => (IsLoginAnswer(resp) /\ upstream = <<>>)
    /\ IsLogout(req) => (IsLogoutAnswer(resp) /\ upstream = <<>>)

\* a client without any cookie has logged in
C20_Witness ==
  /\ IsLoginSubmission(req) /\ req.cookie = <<>>
  /\ ~CarriesEncoding(req, PASSWORD)
  /\ resp.status = 302 /\ resp.setCookie.value # <<>>

\* the Set-Cookie of a successful login: the cookie as issued
IssuedSetCookie ==
  handleLogin(Request("POST", LOGIN_PATH, <<>>, <<>>, Str(LatinSecret(1)), NoUpstream),
              [PASSWORD |-> Str(LatinSecret(1)), SUBTRACK_DATA |-> KvEmpty]).setCookie

\* C21: a request to /logout, whatever its method and whether or not it
\* carries a valid credential, is answered 302 to / with a Set-Cookie that
\* clears the session cookie (empty value, Max-Age=0, and the name, path and
\* security attributes of the cookie as issued), and it performs no store
\* operation, leaves the store as it was and requests nothing upstream.
C21_LogoutClearsCookie ==
  [][ IsLogout(req') =>
        /\ resp'.status = 302 /\ resp'.location = "/"
        /\ resp'.setCookie.present
        /\ resp'.setCookie.value = <<>> /\ resp'.setCookie.maxAge = 0
        /\ IssuedSetCookie.present /\ IssuedSetCookie.maxAge = COOKIE_MAX_AGE
        /\ [resp'.setCookie EXCEPT !.value = IssuedSetCookie.value,
                                   !.maxAge = IssuedSetCookie.maxAge] = IssuedSetCookie
        /\ kv' = kv /\ kvLog' = <<>> /\ upstream' = <<>> ]_vars

\* a POST to /logout carrying the valid credential was served
C21_Witness ==
  IsLogout(req) /\ resp.status = 302 /\ req.method = "POST"
  /\ Authenticated(req, PASSWORD)

\* the request is handed to the proxy: it passed the routes and the gate
IsProxied(r) == IsGated(r) /\ Authenticated(r, PASSWORD)

\* C22: when the fetch to the upstream origin fails at network level, the
\* proxy answers 502 with its diagnostic body, and exactly one upstream
\* request was made for that request.
C22_NetworkFailureIs502 ==
  (IsProxied(req) /\ req.up[1].kind = "network_error") =>
    /\ resp.status = 502
    /\ resp.body = "Worker Exception"
    /\ Len(upstream) = 1

\* the upstream fetch of an authenticated page request failed
C22_Witness ==
  /\ IsProxied(req) /\ req.up[1] = UpNetworkError
  /\ resp.status = 502 /\ Len(upstream) = 1

\* the last segment of a path: what follows its last "/"
LastSegment(path) ==
  LET slashes == { i \in 1..Len(path) : path[i] = "/" }
      last == IF slashes = {} THEN 0
              ELSE CHOOSE i \in slashes : \A j \in slashes : j <= i
  IN SubSeq(path, last + 1, Len(path))
\* the path names a file with an extension: its last segment has a "."
HasFileExtension(path) == Includes(LastSegment(path), ".")

\* C23: for every authenticated proxied request, the upstream URL requested
\* is the fixed origin plus fixed path prefix plus /index.html when the
\* request path is the root or has no file extension, and the origin plus
\* prefix plus the unchanged request path otherwise.
C23_UpstreamUrl ==
  IsProxied(req) =>
    /\ Len(upstream) >= 1
    /\ upstream[1] =
         GITHUB_ORIGIN \o GITHUB_PATH \o
           (IF req.path = << "/" >> \/ ~HasFileExtension(req.path)
              THEN INDEX_HTML ELSE req.path)

\* the response hands on what the upstream sent: its body and its headers
IsRelayed(response) == response.body = "upstream"

\* C24: every response relayed from the upstream to the caller carries no
\* X-Frame-Options header and no Content-Security-Policy header, and carries
\* the X-Proxied-By marker header.
C24_RelayedHeaders ==
  IsRelayed(resp) =>
    /\ "X-Frame-Options" \notin resp.headers
    /\ "Content-Security-Policy" \notin resp.headers
    /\ "X-Proxied-By" \in resp.headers

\* an upstream response carrying both headers was relayed
C24_Witness ==
  /\ IsProxied(req) /\ IsRelayed(resp) /\ resp.status = 200
  /\ {"X-Frame-Options", "Content-Security-Policy"} \subseteq req.up[1].headers

\* the client is Ready with the empty fallback of a failed load: it holds
\* empty collections although the store holds records, and the user has
\* made no local mutation
FellBackToEmpty ==
  /\ page = "mounted" /\ ~isLoading /\ burstLen = 0
  /\ jobs = <<>> /\ payments = <<>>
  /\ kv.present /\ kv.text # EmptyDatasetText

\* C25: a failed initial load never causes data loss on the server: when the
\* client fell back to empty collections and the user makes no local
\* mutation, no save is scheduled and no POST /api/data is issued, and a
\* non-empty dataset in the store is not replaced by the empty fallback.
C25_FailedLoadLosesNoData ==
  /\ [](FellBackToEmpty => (timers = <<>> /\ SavesInFlight = {} /\ burstPosts = 0))
  /\ [][(burstLen = 0 /\ kv.present /\ kv.text # EmptyDatasetText)
          => kv'.text # EmptyDatasetText]_vars

\* the user has stopped mutating and nothing is pending: no timer waits and
\* no request is in flight, after at least one save was dispatched
Settled ==
  /\ page = "mounted" /\ ~isLoading
  /\ timers = <<>> /\ net = <<>>
  /\ lastPost # <<>>

\* C26: with a single client, once the user has stopped mutating and every
\* dispatched save has completed successfully, the dataset held by the store
\* equals the client's working copy, also when saves overlap and reach the
\* gateway in another order than they were dispatched.
C26_StoreEqualsWorkingCopy ==
  Settled => (kv.present /\ kv.text = Stringified[Dataset(jobs, payments)])

\* C27: the stored dataset changes only as the effect of an authenticated
\* POST to exactly /api/data whose body parses as JSON; every other request
\* the gateway handles (GET, other methods on /api/data, other /api/ paths,
\* login, logout, gated and proxied paths) performs no put and leaves the
\* store unchanged.
C27_OnlyDataWritesChangeStore ==
  [][ (kv' # kv \/ \E n \in 1..Len(kvLog') : kvLog'[n] # "get")
        => /\ req'.method = "POST" /\ req'.path = API_DATA
           /\ CarriesEncoding(req', PASSWORD)
           /\ ParsedBody[req'.body].ok
           /\ kv' = KvHolding(Stringified[ParsedBody[req'.body].v]) ]_vars

\* a write has replaced what the write before it had stored
C27_Witness ==
  /\ IsDataWrite(req) /\ kvLog = << "put" >>
  /\ kv.present /\ kv.text = Stringified[ParsedBody[req.body].v]
  /\ prevPut.present /\ prevPut.body # req.body

\* C28: while the controller is Loading, before the initial GET /api/data
\* has completed and its state updates are rendered, no save is scheduled
\* and no POST /api/data is dispatched, in whatever grouping the updates of
\* the load are rendered.
C28_NoSaveWhileLoading ==
  (page = "mounted" /\ isLoading) =>
    /\ timers = <<>>
    /\ SavesInFlight = {}
    /\ lastPost = <<>>

\* the loaded records are rendered and the controller is still Loading:
\* setIsLoading(false) is the one update not yet rendered
C28_Witness ==
  /\ page = "mounted" /\ isLoading
  /\ Len(updates) = 1
  /\ Len(jobs) + Len(payments) > 0
  /\ timers = <<>>

\* the exchanges in which the gateway checked the credential
Checks == { k \in 1..Len(served) : served[k].kind = "check" }

C30_NoSecretAuthenticatesNobody ==
  (PASSWORD = Undefined /\ req # NoRequest) =>
    /\ IsLoginSubmission(req) => (resp.status # 302 /\ ~resp.setCookie.present)
    /\ IsApi(req) => resp.status = 401
    /\ IsGated(req) => (IsLoginPage(resp) /\ upstream = <<>>)
====
